---- MODULE Spec2Model ----
(***************************************************************************)
(* Model of cartographer/mapping_3d/sparse_pose_graph.cc: the 3D sparse    *)
(* pose graph back-end.  One record-valued variable, g, holds the members  *)
(* of the SparsePoseGraph object (with the members of its optimization     *)
(* problem and constraint builder); mutex, pc and loc hold the core mutex  *)
(* and the threads; fe holds the front-end's per-trajectory submap window. *)
(* Rigid transforms are modelled by the translations along one axis,       *)
(* taken modulo PoseMod: composition is addition, inverse is negation.     *)
(***************************************************************************)
EXTENDS Integers, Sequences, FiniteSets, TLC

VARIABLES g, mutex, pc, loc, fe

vars == <<g, mutex, pc, loc, fe>>

(***************************************************************************)
(* Bounds                                                                  *)
(***************************************************************************)
MaxScans == 4
MaxScansSampled == 5
MaxScansWithLifecycle == 3
MaxImu == 1
MaxLifecycleCalls == 1

(***************************************************************************)
(* Threads, handles, options                                               *)
(***************************************************************************)
Handles == {"A", "B"}
ScanThread == "scans"
ImuThread == "imu"
LifeThread == "life"
PoolOrder == <<"p1", "p2">>
Pool == {PoolOrder[i] : i \in 1 .. Len(PoolOrder)}
Threads == {ScanThread, ImuThread, LifeThread} \cup Pool
Free == "free"

TrajectoryIds == 0 .. (Cardinality(Handles) - 1)
Poses == {0, 1, 2}
PoseMod == Cardinality(Poses)
ScanPoses == {1}
\* The corrections a solve may apply to its solution.
SolveShifts == {0, 1}
OptimizeEveryNScansChoices == {0, 1}
\* global_sampling_ratio, in percent.
GlobalSamplingRatioChoices == {0, 100}
SampledRatioChoices == {50}
MaxNumFinalIterations == 200
MaxNumIterations == 50

nullptr == <<"nullptr", 0>>
NoFailure == "none"

(***************************************************************************)
(* transform::Rigid3d                                                      *)
(***************************************************************************)
Identity == 0
Compose(a, b) == (a + b) % PoseMod
Inverse(a) == (PoseMod - a) % PoseMod

\* submap->local_pose(): a const property of the front-end's submap handle
\* <<trajectory handle, index>>.
FirstLocalPose(h) == IF h = "A" THEN 1 ELSE 0
LocalPose(submap) == (FirstLocalPose(submap[1]) + submap[2]) % PoseMod

Last(s) == s[Len(s)]
Max(a, b) == IF a >= b THEN a ELSE b

\* std::vector::resize to at least n entries, new entries empty vectors.
ResizeTo(v, n) == v \o [i \in 1 .. (Max(Len(v), n) - Len(v)) |-> <<>>]

(***************************************************************************)
(* Failing CHECKs and out-of-range .at() abort the process: the first one  *)
(* is recorded in failed and nothing runs after it.                        *)
(***************************************************************************)
Fail(S, what) == IF S.failed = NoFailure THEN [S EXCEPT !.failed = what] ELSE S

HasSubmapId(S, submap) == \E e \in S.submap_ids : e[1] = submap
GetSubmapId(S, submap) == (CHOOSE e \in S.submap_ids : e[1] = submap)[2]

SubmapId(t, i) == [trajectory_id |-> t, submap_index |-> i]
NodeId(t, i) == [trajectory_id |-> t, node_index |-> i]

\* vector<vector<>>::at(t).at(i), ids counted from 0.
InRange(vv, t, i) == t >= 0 /\ t < Len(vv) /\ i >= 0 /\ i < Len(vv[t + 1])
At(vv, t, i) == vv[t + 1][i + 1]

\* OptimizationProblem::AddSubmap and AddTrajectoryNode: grow the outer
\* vector to hold the trajectory, then push_back.
AddSubmap(S, trajectory_id, pose) ==
  LET grown == ResizeTo(S.submap_data, trajectory_id + 1)
  IN [S EXCEPT !.submap_data =
        [grown EXCEPT ![trajectory_id + 1] = Append(@, pose)]]

AddTrajectoryNode(S, trajectory_id, pose) ==
  LET grown == ResizeTo(S.node_data, trajectory_id + 1)
  IN [S EXCEPT !.node_data =
        [grown EXCEPT ![trajectory_id + 1] = Append(@, pose)]]

\* Variant of GrowSubmapTransformsAsNeeded: a scan with one insertion submap
\* always adds an entry.
GrowSubmapTransformsAlways(S, insertion_submaps) ==
  IF ~HasSubmapId(S, insertion_submaps[1]) THEN Fail(S, "GetSubmapId")
  ELSE
  LET first_submap_id == GetSubmapId(S, insertion_submaps[1])
      trajectory_id == first_submap_id.trajectory_id
      submap_data == S.submap_data
  IN IF Len(insertion_submaps) = 1
     THEN IF first_submap_id.submap_index # 0
          THEN Fail(S, "CHECK_EQ(first_submap_id.submap_index, 0)")
          ELSE AddSubmap(S, trajectory_id, Identity)
     ELSE IF trajectory_id >= Len(submap_data)
          THEN Fail(S, "submap_data.at(trajectory_id)")
          ELSE IF ~HasSubmapId(S, insertion_submaps[2])
          THEN Fail(S, "GetSubmapId")
          ELSE
          LET next_submap_index == Len(submap_data[trajectory_id + 1])
              second_submap_id == GetSubmapId(S, insertion_submaps[2])
          IN IF second_submap_id.trajectory_id # trajectory_id
             THEN Fail(S, "CHECK_EQ(second_submap_id.trajectory_id, trajectory_id)")
             ELSE IF second_submap_id.submap_index > next_submap_index
             THEN Fail(S, "CHECK_LE(second_submap_id.submap_index, next_submap_index)")
             ELSE IF second_submap_id.submap_index = next_submap_index
             THEN IF ~InRange(submap_data, trajectory_id,
                              first_submap_id.submap_index)
                  THEN Fail(S, "submap_data.at(first_submap_id)")
                  ELSE AddSubmap(S, trajectory_id,
                         Compose(Compose(At(submap_data, trajectory_id,
                                            first_submap_id.submap_index),
                                         Inverse(LocalPose(insertion_submaps[1]))),
                                 LocalPose(insertion_submaps[2])))
             ELSE S

GrowSubmapTransformsAsNeeded(S, insertion_submaps) ==
  IF ~HasSubmapId(S, insertion_submaps[1]) THEN Fail(S, "GetSubmapId")
  ELSE
  LET first_submap_id == GetSubmapId(S, insertion_submaps[1])
      trajectory_id == first_submap_id.trajectory_id
      submap_data == S.submap_data
  IN IF Len(insertion_submaps) = 1
     THEN IF first_submap_id.submap_index # 0
          THEN Fail(S, "CHECK_EQ(first_submap_id.submap_index, 0)")
          ELSE IF trajectory_id >= Len(submap_data)
                  \/ submap_data[trajectory_id + 1] = <<>>
               THEN AddSubmap(S, trajectory_id, Identity)
               ELSE S
     ELSE IF trajectory_id >= Len(submap_data)
          THEN Fail(S, "submap_data.at(trajectory_id)")
          ELSE IF ~HasSubmapId(S, insertion_submaps[2])
          THEN Fail(S, "GetSubmapId")
          ELSE
          LET next_submap_index == Len(submap_data[trajectory_id + 1])
              second_submap_id == GetSubmapId(S, insertion_submaps[2])
          IN IF second_submap_id.trajectory_id # trajectory_id
             THEN Fail(S, "CHECK_EQ(second_submap_id.trajectory_id, trajectory_id)")
             ELSE IF second_submap_id.submap_index > next_submap_index
             THEN Fail(S, "CHECK_LE(second_submap_id.submap_index, next_submap_index)")
             ELSE IF second_submap_id.submap_index = next_submap_index
             THEN IF ~InRange(submap_data, trajectory_id,
                              first_submap_id.submap_index)
                  THEN Fail(S, "submap_data.at(first_submap_id)")
                  ELSE AddSubmap(S, trajectory_id,
                         Compose(Compose(At(submap_data, trajectory_id,
                                            first_submap_id.submap_index),
                                         Inverse(LocalPose(insertion_submaps[1]))),
                                 LocalPose(insertion_submaps[2])))
             ELSE S

(***************************************************************************)
(* Constraint builder facade: a proposal is a job the matcher resolves     *)
(* later; WhenDone registers a callback.                                   *)
(***************************************************************************)
Propose(S, submap_id, node_id, scan_index, scan_trajectory_id, global) ==
  LET job == [computation |-> S.current_computation,
              submap_id |-> submap_id, node_id |-> node_id,
              scan_index |-> scan_index,
              scan_trajectory_id |-> scan_trajectory_id, global |-> global]
  IN [S EXCEPT !.pending_jobs = Append(@, job),
               !.proposals = Append(@, job)]

NotifyEndOfScan(S) == [S EXCEPT !.current_computation = @ + 1]

WhenDone(S, callback) == [S EXCEPT !.when_done = Append(@, callback)]

\* FixedRatioSampler::Pulse of the sampler of a trajectory: it fires while
\* the share of pulses that fired is below the ratio.
PulseResult(S, trajectory_id) ==
  100 * S.num_samples[trajectory_id]
    < S.global_sampling_ratio * (S.num_pulses[trajectory_id] + 1)

Pulse(S, trajectory_id) ==
  [S EXCEPT !.num_pulses[trajectory_id] = @ + 1,
            !.num_samples[trajectory_id] =
               IF PulseResult(S, trajectory_id) THEN @ + 1 ELSE @]

\* What a call of ComputeConstraint finds: its arguments, the samplers, the
\* connectivity, live and as cached by the last optimization, and the number
\* of matches proposed so far.
ComputeConstraintCall(S, scan_index, submap_id) ==
  [scan_index |-> scan_index, submap_id |-> submap_id,
   scan_trajectory_id |-> S.trajectory_nodes[scan_index + 1].trajectory_id,
   global_sampling_ratio |-> S.global_sampling_ratio,
   num_pulses |-> S.num_pulses, num_samples |-> S.num_samples,
   trajectory_connectivity |-> S.trajectory_connectivity,
   connected_components |-> S.connected_components,
   num_proposals |-> Len(S.proposals)]

\* Variant of ComputeConstraint: a scan of another trajectory is matched
\* locally whether or not the trajectories are connected.
ComputeConstraintAlwaysLocal(S, scan_index, submap_id) ==
  IF scan_index >= Len(S.scan_index_to_node_id)
  THEN Fail(S, "scan_index_to_node_id.at(scan_index)")
  ELSE
  LET node_id == S.scan_index_to_node_id[scan_index + 1]
      scan_trajectory_id == S.trajectory_nodes[scan_index + 1].trajectory_id
      called == [S EXCEPT !.computed = Append(@, ComputeConstraintCall(S, scan_index, submap_id))]
  IN IF ~InRange(S.submap_data, submap_id.trajectory_id, submap_id.submap_index)
     THEN Fail(S, "submap_data.at(submap_id)")
     ELSE IF ~InRange(S.node_data, node_id.trajectory_id, node_id.node_index)
     THEN Fail(S, "node_data.at(node_id)")
     ELSE IF scan_trajectory_id # submap_id.trajectory_id
     THEN LET pulsed == Pulse(called, scan_trajectory_id)
          IN IF PulseResult(S, scan_trajectory_id)
             THEN Propose(pulsed, submap_id, node_id, scan_index,
                          scan_trajectory_id, TRUE)
             ELSE Propose(pulsed, submap_id, node_id, scan_index,
                          scan_trajectory_id, FALSE)
     ELSE Propose(called, submap_id, node_id, scan_index, scan_trajectory_id, FALSE)

ComputeConstraint(S, scan_index, submap_id) ==
  IF scan_index >= Len(S.scan_index_to_node_id)
  THEN Fail(S, "scan_index_to_node_id.at(scan_index)")
  ELSE
  LET node_id == S.scan_index_to_node_id[scan_index + 1]
      scan_trajectory_id == S.trajectory_nodes[scan_index + 1].trajectory_id
      called == [S EXCEPT !.computed = Append(@, ComputeConstraintCall(S, scan_index, submap_id))]
  IN IF ~InRange(S.submap_data, submap_id.trajectory_id, submap_id.submap_index)
     THEN Fail(S, "submap_data.at(submap_id)")
     ELSE IF ~InRange(S.node_data, node_id.trajectory_id, node_id.node_index)
     THEN Fail(S, "node_data.at(node_id)")
     ELSE IF scan_trajectory_id # submap_id.trajectory_id
     THEN LET pulsed == Pulse(called, scan_trajectory_id)
          IN IF PulseResult(S, scan_trajectory_id)
             THEN Propose(pulsed, submap_id, node_id, scan_index,
                          scan_trajectory_id, TRUE)
             ELSE LET scan_and_submap_trajectories_connected ==
                        /\ S.reverse_connected_components[scan_trajectory_id] # {}
                        /\ S.reverse_connected_components[submap_id.trajectory_id] # {}
                        /\ S.reverse_connected_components[scan_trajectory_id]
                             = S.reverse_connected_components[submap_id.trajectory_id]
                  IN IF scan_and_submap_trajectories_connected
                     THEN Propose(pulsed, submap_id, node_id, scan_index,
                                  scan_trajectory_id, FALSE)
                     ELSE pulsed
     ELSE Propose(called, submap_id, node_id, scan_index, scan_trajectory_id, FALSE)

\* Variant of OldScansFrom: scans that were inserted into the submap are
\* matched as well.
RECURSIVE OldScansFromAll(_, _, _)
OldScansFromAll(S, submap_id, scan_index) ==
  IF S.failed # NoFailure \/ scan_index >= Len(S.scan_index_to_node_id) THEN S
  ELSE OldScansFromAll(ComputeConstraint(S, scan_index, submap_id), submap_id, scan_index + 1)

RECURSIVE OldScansFrom(_, _, _)
OldScansFrom(S, submap_id, scan_index) ==
  IF S.failed # NoFailure \/ scan_index >= Len(S.scan_index_to_node_id) THEN S
  ELSE LET submap_state == At(S.submap_states, submap_id.trajectory_id,
                              submap_id.submap_index)
           next == IF S.scan_index_to_node_id[scan_index + 1]
                        \notin submap_state.node_ids
                   THEN ComputeConstraint(S, scan_index, submap_id)
                   ELSE S
       IN OldScansFrom(next, submap_id, scan_index + 1)

ComputeConstraintsForOldScans(S, submap) ==
  IF ~HasSubmapId(S, submap) THEN Fail(S, "GetSubmapId")
  ELSE OldScansFrom(S, GetSubmapId(S, submap), 0)

\* Variant of HandleScanQueue: no callback is registered.
HandleScanQueueNoCallback(S) == S

(***************************************************************************)
(* The work queue: HandleScanQueue registers the queue-driven callback;    *)
(* its body is the action QueueCallbackDrain below.                        *)
(***************************************************************************)
HandleScanQueue(S) == WhenDone(S, "queue")

\* Lines 242-261: one insertion submap of the scan.
InsertIntoSubmap(S, submap, node_id) ==
  IF S.failed # NoFailure THEN S
  ELSE IF ~HasSubmapId(S, submap) THEN Fail(S, "GetSubmapId")
  ELSE
  LET submap_id == GetSubmapId(S, submap)
      t == submap_id.trajectory_id + 1
      i == submap_id.submap_index + 1
  IN IF S.submap_states[t][i].finished
     THEN Fail(S, "CHECK(!insertion submap finished)")
     ELSE [S EXCEPT !.submap_states[t][i].node_ids = @ \cup {node_id},
                    !.constraints = Append(@, [submap_id |-> submap_id,
                                               node_id |-> node_id,
                                               tag |-> "INTRA_SUBMAP"])]

RECURSIVE InsertIntoSubmaps(_, _, _, _)
InsertIntoSubmaps(S, insertion_submaps, node_id, k) ==
  IF k > Len(insertion_submaps) THEN S
  ELSE InsertIntoSubmaps(InsertIntoSubmap(S, insertion_submaps[k], node_id),
                         insertion_submaps, node_id, k + 1)

\* Variant of MatchFinishedSubmaps: only the submaps of the first trajectory
\* are visited.
RECURSIVE MatchFinishedSubmapsOfFirst(_, _, _, _, _)
MatchFinishedSubmapsOfFirst(S, scan_index, node_id, trajectory_id, submap_index) ==
  IF S.failed # NoFailure \/ trajectory_id >= Len(S.submap_states) THEN S
  ELSE IF trajectory_id >= 1 \/ submap_index >= Len(S.submap_states[trajectory_id + 1])
  THEN MatchFinishedSubmapsOfFirst(S, scan_index, node_id, trajectory_id + 1, 0)
  ELSE LET state == At(S.submap_states, trajectory_id, submap_index)
           next == IF ~state.finished THEN S
                   ELSE IF node_id \in state.node_ids
                   THEN Fail(S, "CHECK_EQ(finished submap node_ids.count(node_id), 0)")
                   ELSE ComputeConstraint(S, scan_index,
                                          SubmapId(trajectory_id, submap_index))
       IN MatchFinishedSubmapsOfFirst(next, scan_index, node_id, trajectory_id,
                                      submap_index + 1)

\* Lines 263-278: the loops over every submap of every trajectory.
RECURSIVE MatchFinishedSubmaps(_, _, _, _, _)
MatchFinishedSubmaps(S, scan_index, node_id, trajectory_id, submap_index) ==
  IF S.failed # NoFailure \/ trajectory_id >= Len(S.submap_states) THEN S
  ELSE IF submap_index >= Len(S.submap_states[trajectory_id + 1])
  THEN MatchFinishedSubmaps(S, scan_index, node_id, trajectory_id + 1, 0)
  ELSE LET state == At(S.submap_states, trajectory_id, submap_index)
           next == IF ~state.finished THEN S
                   ELSE IF node_id \in state.node_ids
                   THEN Fail(S, "CHECK_EQ(finished submap node_ids.count(node_id), 0)")
                   ELSE ComputeConstraint(S, scan_index,
                                          SubmapId(trajectory_id, submap_index))
       IN MatchFinishedSubmaps(next, scan_index, node_id, trajectory_id,
                               submap_index + 1)

\* Variant of FinishSubmap: the flag is set on the submap after the finished
\* one when the trajectory has one.
FinishSubmapNext(S, finished_submap) ==
  IF S.failed # NoFailure \/ finished_submap = nullptr THEN S
  ELSE IF ~HasSubmapId(S, finished_submap) THEN Fail(S, "GetSubmapId")
  ELSE
  LET finished_submap_id == GetSubmapId(S, finished_submap)
      t == finished_submap_id.trajectory_id + 1
      i == IF finished_submap_id.submap_index + 2 <= Len(S.submap_states[t])
           THEN finished_submap_id.submap_index + 2
           ELSE finished_submap_id.submap_index + 1
  IN IF S.submap_states[t][i].finished
     THEN Fail(S, "CHECK(!finished_submap_state.finished)")
     ELSE LET old == ComputeConstraintsForOldScans(S, finished_submap)
          IN IF old.failed # NoFailure THEN old
             ELSE [old EXCEPT !.submap_states[t][i].finished = TRUE]

\* Lines 280-290.
FinishSubmap(S, finished_submap) ==
  IF S.failed # NoFailure \/ finished_submap = nullptr THEN S
  ELSE IF ~HasSubmapId(S, finished_submap) THEN Fail(S, "GetSubmapId")
  ELSE
  LET finished_submap_id == GetSubmapId(S, finished_submap)
      t == finished_submap_id.trajectory_id + 1
      i == finished_submap_id.submap_index + 1
  IN IF S.submap_states[t][i].finished
     THEN Fail(S, "CHECK(!finished_submap_state.finished)")
     ELSE LET old == ComputeConstraintsForOldScans(S, finished_submap)
          IN IF old.failed # NoFailure THEN old
             ELSE [old EXCEPT !.submap_states[t][i].finished = TRUE]

\* Variant of MaybeTriggerOptimization: the threshold compared with >=.
MaybeTriggerOptimizationAtThreshold(S) ==
  IF S.failed # NoFailure THEN S
  ELSE
  LET counted == [NotifyEndOfScan(S) EXCEPT
                    !.num_scans_since_last_loop_closure = @ + 1]
  IN IF counted.optimize_every_n_scans > 0
        /\ counted.num_scans_since_last_loop_closure
             >= counted.optimize_every_n_scans
     THEN IF counted.run_loop_closure
          THEN Fail(counted, "CHECK(!run_loop_closure_)")
          ELSE LET flagged == [counted EXCEPT !.run_loop_closure = TRUE]
               IN IF ~flagged.scan_queue.allocated
                  THEN HandleScanQueue(
                         [flagged EXCEPT !.scan_queue =
                            [allocated |-> TRUE, items |-> <<>>]])
                  ELSE flagged
     ELSE counted

\* Lines 291-302.
MaybeTriggerOptimization(S) ==
  IF S.failed # NoFailure THEN S
  ELSE
  LET counted == [NotifyEndOfScan(S) EXCEPT
                    !.num_scans_since_last_loop_closure = @ + 1]
  IN IF counted.optimize_every_n_scans > 0
        /\ counted.num_scans_since_last_loop_closure
             > counted.optimize_every_n_scans
     THEN IF counted.run_loop_closure
          THEN Fail(counted, "CHECK(!run_loop_closure_)")
          ELSE LET flagged == [counted EXCEPT !.run_loop_closure = TRUE]
               IN IF ~flagged.scan_queue.allocated
                  THEN HandleScanQueue(
                         [flagged EXCEPT !.scan_queue =
                            [allocated |-> TRUE, items |-> <<>>]])
                  ELSE flagged
     ELSE counted

\* Variant of AddNodeForScan: the per-trajectory count is not incremented.
AddNodeForScanNoCount(S, item) ==
  IF S.failed # NoFailure THEN S
  ELSE IF ~HasSubmapId(S, item.matching_submap) THEN Fail(S, "GetSubmapId")
  ELSE
  LET matching_id == GetSubmapId(S, item.matching_submap)
      t == matching_id.trajectory_id
  IN IF ~InRange(S.submap_data, t, matching_id.submap_index)
     THEN Fail(S, "submap_data.at(matching_id)")
     ELSE IF item.scan_index # Len(S.scan_index_to_node_id)
     THEN Fail(S, "CHECK_EQ(scan_index, scan_index_to_node_id_.size())")
     ELSE IF S.trajectory_nodes[item.scan_index + 1].trajectory_id # t
     THEN Fail(S, "CHECK_EQ(scan_data->trajectory_id, matching_id.trajectory_id)")
     ELSE
     LET optimized_pose ==
           Compose(Compose(At(S.submap_data, t, matching_id.submap_index),
                           Inverse(LocalPose(item.matching_submap))),
                   item.pose)
         node_id == NodeId(t, S.num_nodes_in_trajectory[t])
     IN AddTrajectoryNode(
          [S EXCEPT !.scan_index_to_node_id = Append(@, node_id)],
          t, optimized_pose)

\* Lines 223-241.
AddNodeForScan(S, item) ==
  IF S.failed # NoFailure THEN S
  ELSE IF ~HasSubmapId(S, item.matching_submap) THEN Fail(S, "GetSubmapId")
  ELSE
  LET matching_id == GetSubmapId(S, item.matching_submap)
      t == matching_id.trajectory_id
  IN IF ~InRange(S.submap_data, t, matching_id.submap_index)
     THEN Fail(S, "submap_data.at(matching_id)")
     ELSE IF item.scan_index # Len(S.scan_index_to_node_id)
     THEN Fail(S, "CHECK_EQ(scan_index, scan_index_to_node_id_.size())")
     ELSE IF S.trajectory_nodes[item.scan_index + 1].trajectory_id # t
     THEN Fail(S, "CHECK_EQ(scan_data->trajectory_id, matching_id.trajectory_id)")
     ELSE
     LET optimized_pose ==
           Compose(Compose(At(S.submap_data, t, matching_id.submap_index),
                           Inverse(LocalPose(item.matching_submap))),
                   item.pose)
         node_id == NodeId(t, S.num_nodes_in_trajectory[t])
     IN AddTrajectoryNode(
          [S EXCEPT !.scan_index_to_node_id = Append(@, node_id),
                    !.num_nodes_in_trajectory[t] = @ + 1],
          t, optimized_pose)

ComputeConstraintsForScan(S, item) ==
  LET grown == GrowSubmapTransformsAsNeeded(S, item.insertion_submaps)
      added == AddNodeForScan(grown, item)
  IN IF added.failed # NoFailure THEN added
     ELSE
     LET node_id == Last(added.scan_index_to_node_id)
         inserted == InsertIntoSubmaps(added, item.insertion_submaps, node_id, 1)
         matched == MatchFinishedSubmaps(inserted, item.scan_index, node_id, 0, 0)
         finished == FinishSubmap(matched, item.finished_submap)
     IN MaybeTriggerOptimization(finished)

\* The lambda of AddImuData, lines 160-161.
PushImuData(S, item) ==
  LET t == S.trajectory_ids[item.trajectory]
  IN [S EXCEPT !.imu_data[t] = @ + 1]

\* work_item(): the closure of AddScan or of AddImuData.
RunWorkItem(S, item) ==
  IF S.failed # NoFailure THEN S
  ELSE LET logged == [S EXCEPT !.executed = Append(@, item.id),
                               !.executed_while_flagged =
                                  @ \/ S.run_loop_closure]
       IN IF item.kind = "scan" THEN ComputeConstraintsForScan(logged, item)
          ELSE PushImuData(logged, item)

\* Variants of AddWorkItem: one that never defers, one that queues in front.
AddWorkItemAlwaysInline(S, work_item) == RunWorkItem(S, work_item)

AddWorkItemPushFront(S, work_item) ==
  IF ~S.scan_queue.allocated
  THEN RunWorkItem(S, work_item)
  ELSE [S EXCEPT !.scan_queue.items = <<work_item>> \o @]

AddWorkItem(S, work_item) ==
  IF ~S.scan_queue.allocated
  THEN RunWorkItem(S, work_item)
  ELSE [S EXCEPT !.scan_queue.items = Append(@, work_item)]

\* Variant of DrainScanQueue: the loop runs until the queue is empty.
RECURSIVE DrainScanQueueToTheEnd(_)
DrainScanQueueToTheEnd(S) ==
  IF S.failed # NoFailure THEN S
  ELSE IF S.scan_queue.items = <<>>
  THEN IF S.run_loop_closure
       THEN HandleScanQueue([S EXCEPT !.left_over = 0])
       ELSE [S EXCEPT !.scan_queue = [allocated |-> FALSE, items |-> <<>>]]
  ELSE LET ran == RunWorkItem(S, Head(S.scan_queue.items))
       IN DrainScanQueueToTheEnd([ran EXCEPT !.scan_queue.items = Tail(@)])

\* Lines 314-324: the loop of the queue-driven callback.  left_over records
\* how many items were still queued when the loop last stopped at a raised
\* flag.
RECURSIVE DrainScanQueue(_)
DrainScanQueue(S) ==
  IF S.failed # NoFailure THEN S
  ELSE IF S.run_loop_closure
  THEN HandleScanQueue([S EXCEPT !.left_over = Len(S.scan_queue.items)])
  ELSE IF S.scan_queue.items = <<>>
  THEN [S EXCEPT !.scan_queue = [allocated |-> FALSE, items |-> <<>>]]
  ELSE LET ran == RunWorkItem(S, Head(S.scan_queue.items))
       IN DrainScanQueue([ran EXCEPT !.scan_queue.items = Tail(@)])

(***************************************************************************)
(* Frame services                                                          *)
(***************************************************************************)
RECURSIVE ExtrapolateOver(_, _, _, _)
ExtrapolateOver(states, transforms, result, k) ==
  IF k > Len(states) THEN result
  ELSE LET next ==
             IF Len(result) < Len(transforms) THEN transforms[Len(result) + 1]
             ELSE IF result = <<>> THEN Identity
             ELSE Compose(Compose(Last(result),
                                  Inverse(LocalPose(states[Len(result)].submap))),
                          LocalPose(states[k].submap))
       IN ExtrapolateOver(states, transforms, Append(result, next), k + 1)

ExtrapolateSubmapTransforms(S, submap_transforms, trajectory_id) ==
  IF trajectory_id >= Len(S.submap_states) THEN <<Identity>>
  ELSE LET transforms == IF trajectory_id < Len(submap_transforms)
                         THEN submap_transforms[trajectory_id + 1] ELSE <<>>
           result == ExtrapolateOver(S.submap_states[trajectory_id + 1],
                                     transforms, <<>>, 1)
       IN IF result = <<>> THEN <<Identity>> ELSE result

GetSubmapTransforms(S, trajectory) ==
  IF S.trajectory_ids[trajectory] < 0 THEN <<Identity>>
  ELSE ExtrapolateSubmapTransforms(S, S.optimized_submap_transforms,
                                   S.trajectory_ids[trajectory])

\* Variant of GetLocalToGlobalTransform: the local pose is left out.
GetLocalToGlobalTransformNoLocalPose(S, submaps) ==
  Last(GetSubmapTransforms(S, submaps))

GetLocalToGlobalTransform(S, submaps) ==
  LET extrapolated_submap_transforms == GetSubmapTransforms(S, submaps)
  IN Compose(Last(extrapolated_submap_transforms),
             Inverse(LocalPose(<<submaps,
                                 Len(extrapolated_submap_transforms) - 1>>)))

(***************************************************************************)
(* Trajectory connectivity (union-find) and the optimization driver        *)
(***************************************************************************)
RECURSIVE Reach(_, _)
Reach(connectivity, set) ==
  LET next == set \cup {b \in connectivity.added :
                          \E a \in set : {a, b} \in connectivity.links}
  IN IF next = set THEN set ELSE Reach(connectivity, next)

ConnectedComponents(connectivity) ==
  {Reach(connectivity, {a}) : a \in connectivity.added}

Connect(connectivity, a, b) ==
  [added |-> connectivity.added \cup {a, b},
   links |-> connectivity.links \cup {{a, b}}]

\* Variant of RefreshConnectedComponents: the cached components are kept.
RefreshConnectedComponentsSkipped(S) == S

\* Lines 438-441: the cached components are returned.
GetConnectedTrajectories(S) == S.connected_components

\* Lines 404-410.
RefreshConnectedComponents(S) ==
  LET components == ConnectedComponents(S.trajectory_connectivity)
  IN [S EXCEPT !.connected_components = components,
               !.reverse_connected_components =
                  [t \in TrajectoryIds |->
                     IF \E c \in components : t \in c
                     THEN CHOOSE c \in components : t \in c
                     ELSE {}]]

\* Lines 387-402: the pose of a node added after the optimized ones.
ExtrapolatedPose(S, node) ==
  LET new_submap_transforms ==
        ExtrapolateSubmapTransforms(S, S.submap_data, node.trajectory_id)
      old_submap_transforms ==
        ExtrapolateSubmapTransforms(S, S.optimized_submap_transforms,
                                    node.trajectory_id)
  IN Compose(Compose(Last(new_submap_transforms),
                     Inverse(Last(old_submap_transforms))),
             node.pose)

\* Variant of UpdateTrajectoryNodes: the nodes added after the optimized
\* ones keep their pose.
UpdateTrajectoryNodesNoExtrapolation(S) ==
  LET num_optimized_poses == Len(S.scan_index_to_node_id)
      bad == \E i \in 1 .. num_optimized_poses :
               ~InRange(S.node_data, S.scan_index_to_node_id[i].trajectory_id,
                        S.scan_index_to_node_id[i].node_index)
  IN IF bad THEN Fail(S, "node_data.at(node_id)")
     ELSE [S EXCEPT
             !.trajectory_nodes =
                [i \in 1 .. Len(S.trajectory_nodes) |->
                   IF i <= num_optimized_poses
                   THEN [S.trajectory_nodes[i] EXCEPT !.pose =
                           At(S.node_data,
                              S.scan_index_to_node_id[i].trajectory_id,
                              S.scan_index_to_node_id[i].node_index)]
                   ELSE S.trajectory_nodes[i]],
             !.optimized_submap_transforms = S.submap_data]

\* Lines 378-403: rewrite the node poses and snapshot the submap poses.
UpdateTrajectoryNodes(S) ==
  LET num_optimized_poses == Len(S.scan_index_to_node_id)
      bad == \E i \in 1 .. num_optimized_poses :
               ~InRange(S.node_data, S.scan_index_to_node_id[i].trajectory_id,
                        S.scan_index_to_node_id[i].node_index)
  IN IF bad THEN Fail(S, "node_data.at(node_id)")
     ELSE [S EXCEPT
             !.trajectory_nodes =
                [i \in 1 .. Len(S.trajectory_nodes) |->
                   IF i <= num_optimized_poses
                   THEN [S.trajectory_nodes[i] EXCEPT !.pose =
                           At(S.node_data,
                              S.scan_index_to_node_id[i].trajectory_id,
                              S.scan_index_to_node_id[i].node_index)]
                   ELSE [S.trajectory_nodes[i] EXCEPT !.pose =
                           ExtrapolatedPose(S, S.trajectory_nodes[i])]],
             !.optimized_submap_transforms = S.submap_data]

\* The part of RunOptimization that runs under the mutex, lines 376-410.
RunOptimizationLocked(S) ==
  LET updated == UpdateTrajectoryNodes(S)
  IN IF updated.failed # NoFailure THEN updated
     ELSE RefreshConnectedComponents(updated)

\* OptimizationProblem::Solve: the solver moves the whole solution.
Solved(S, shift) ==
  [S EXCEPT !.submap_data =
              [t \in 1 .. Len(@) |->
                 [i \in 1 .. Len(@[t]) |-> Compose(shift, @[t][i])]],
            !.node_data =
              [t \in 1 .. Len(@) |->
                 [i \in 1 .. Len(@[t]) |-> Compose(shift, @[t][i])]]]

(***************************************************************************)
(* Constraint builder (matcher)                                            *)
(***************************************************************************)
GetNumFinishedScans(S) ==
  IF S.pending_jobs = <<>> THEN S.current_computation
  ELSE Head(S.pending_jobs).computation

MatcherIdle(S) == S.pending_jobs = <<>>

(***************************************************************************)
(* Initial state: the object after construction, every thread idle.        *)
(***************************************************************************)
InitGraph(n, ratio) ==
  [optimize_every_n_scans |-> n,
   global_sampling_ratio |-> ratio,
   trajectory_ids |-> [h \in Handles |-> -1],
   trajectory_nodes |-> <<>>,
   submap_ids |-> {},
   submap_states |-> <<>>,
   global_localization_samplers |-> {},
   num_pulses |-> [t \in TrajectoryIds |-> 0],
   num_samples |-> [t \in TrajectoryIds |-> 0],
   scan_index_to_node_id |-> <<>>,
   num_nodes_in_trajectory |-> [t \in TrajectoryIds |-> 0],
   constraints |-> <<>>,
   submap_data |-> <<>>,
   node_data |-> <<>>,
   imu_data |-> [t \in TrajectoryIds |-> 0],
   max_num_iterations |-> MaxNumIterations,
   optimized_submap_transforms |-> <<>>,
   trajectory_connectivity |-> [added |-> {}, links |-> {}],
   connected_components |-> {},
   reverse_connected_components |-> [t \in TrajectoryIds |-> {}],
   scan_queue |-> [allocated |-> FALSE, items |-> <<>>],
   run_loop_closure |-> FALSE,
   num_scans_since_last_loop_closure |-> 0,
   pending_jobs |-> <<>>,
   current_computation |-> 0,
   results |-> <<>>,
   when_done |-> <<>>,
   failed |-> NoFailure,
   destroyed |-> FALSE,
   executed |-> <<>>,
   submitted |-> 0,
   left_over |-> 0,
   proposals |-> <<>>,
   computed |-> <<>>,
   executed_while_flagged |-> FALSE]

InitLocals ==
  [trajectory |-> "A", l2g |-> Identity, imu_trajectory |-> "A",
   imu_calls |-> 0,
   callback |-> [p \in Pool |-> "none"],
   result |-> [p \in Pool |-> <<>>],
   seen |-> [p \in Pool |-> <<>>],
   op |-> "none", notification |-> FALSE, calls |-> 0,
   cap_before |-> MaxNumIterations, final_iterations |-> 0]

\* The front end: each trajectory's window of insertion submaps, and how
\* many calls the environment makes.
InitFrontEnd(handles, scans, imu, calls) ==
  [window |-> [h \in Handles |-> [front |-> 0, size |-> 1]],
   handles |-> handles,
   max_scans |-> scans, max_imu |-> imu, max_calls |-> calls]

InitWith(handles, scans, imu, calls) ==
  /\ \E n \in OptimizeEveryNScansChoices, ratio \in GlobalSamplingRatioChoices :
       g = InitGraph(n, ratio)
  /\ mutex = Free
  /\ pc = [t \in Threads |-> "idle"]
  /\ loc = InitLocals
  /\ fe = InitFrontEnd(handles, scans, imu, calls)


Alive == g.failed = NoFailure /\ ~g.destroyed

(***************************************************************************)
(* Front end: the sliding window of insertion submaps of a trajectory.     *)
(***************************************************************************)
InsertionSubmaps(h) ==
  IF fe.window[h].size = 1 THEN << <<h, fe.window[h].front>> >>
  ELSE << <<h, fe.window[h].front>>, <<h, fe.window[h].front + 1>> >>

AdvanceWindow(w) ==
  IF w.size = 1 THEN [front |-> w.front, size |-> 2]
  ELSE [front |-> w.front + 1, size |-> 2]

(***************************************************************************)
(* AddScan                                                                 *)
(***************************************************************************)
\* Lines 95-96: the transform is looked up before the mutex is taken at
\* line 98 (GetSubmapTransforms takes and releases it on its own).
AddScanLookup(h) ==
  /\ Alive /\ pc[ScanThread] = "idle" /\ mutex = Free
  /\ h \in fe.handles
  /\ Len(g.trajectory_nodes) < fe.max_scans
  /\ loc' = [loc EXCEPT !.trajectory = h,
                        !.l2g = GetLocalToGlobalTransform(g, h)]
  /\ pc' = [pc EXCEPT ![ScanThread] = "add_scan"]
  /\ UNCHANGED <<g, mutex, fe>>

AddScanLock ==
  /\ Alive /\ pc[ScanThread] = "add_scan" /\ mutex = Free
  /\ mutex' = ScanThread
  /\ pc' = [pc EXCEPT ![ScanThread] = "add_scan_locked"]
  /\ UNCHANGED <<g, loc, fe>>

\* Lines 112-122.
RegisterSubmap(S, trajectory_id, submap) ==
  IF HasSubmapId(S, submap) THEN S
  ELSE LET states == ResizeTo(S.submap_states, trajectory_id + 1)
           id == SubmapId(trajectory_id, Len(states[trajectory_id + 1]))
       IN [S EXCEPT !.submap_ids = @ \cup {<<submap, id>>},
                    !.submap_states =
                       [states EXCEPT ![trajectory_id + 1] =
                          Append(@, [submap |-> submap, node_ids |-> {},
                                     finished |-> FALSE])]]

\* Variant of RegisterTrajectory: a known handle is given a new id.
RegisterTrajectoryAgain(S, trajectory) ==
  [S EXCEPT !.trajectory_ids[trajectory] =
     Cardinality({h \in Handles : S.trajectory_ids[h] >= 0})]

\* trajectory_ids_.emplace(trajectory, trajectory_ids_.size()).
RegisterTrajectory(S, trajectory) ==
  IF S.trajectory_ids[trajectory] >= 0 THEN S
  ELSE [S EXCEPT !.trajectory_ids[trajectory] =
          Cardinality({h \in Handles : S.trajectory_ids[h] >= 0})]

\* Lines 99-137, under the mutex.
AddScanLocked(S, trajectory, optimized_pose, pose, matching_submap, insertion_submaps, front_finished) ==
  LET registered == RegisterTrajectory(S, trajectory)
      trajectory_id == registered.trajectory_ids[trajectory]
      flat_scan_index == Len(S.trajectory_nodes)
      appended ==
        [registered EXCEPT
           !.trajectory_nodes = Append(@, [trajectory_id |-> trajectory_id,
                                           pose |-> optimized_pose,
                                           scan_pose |-> pose]),
           !.trajectory_connectivity.added = @ \cup {trajectory_id}]
      with_submap == RegisterSubmap(appended, trajectory_id,
                                    Last(insertion_submaps))
      finished_submap == IF front_finished THEN insertion_submaps[1]
                         ELSE nullptr
      with_sampler == [with_submap EXCEPT
                         !.global_localization_samplers = @ \cup {trajectory_id},
                         !.submitted = @ + 1]
  IN AddWorkItem(with_sampler,
                 [kind |-> "scan", id |-> S.submitted,
                  scan_index |-> flat_scan_index,
                  matching_submap |-> matching_submap,
                  insertion_submaps |-> insertion_submaps,
                  finished_submap |-> finished_submap,
                  pose |-> pose, trajectory |-> trajectory])

AddScanBody ==
  /\ Alive /\ pc[ScanThread] = "add_scan_locked" /\ mutex = ScanThread
  /\ \E pose \in ScanPoses, advance \in BOOLEAN :
       LET h == loc.trajectory
       IN /\ g' = AddScanLocked(g, h, Compose(loc.l2g, pose), pose,
                                <<h, fe.window[h].front>>, InsertionSubmaps(h),
                                fe.window[h].size = 2 /\ advance)
          /\ fe' = [fe EXCEPT !.window[h] =
                                 IF advance THEN AdvanceWindow(@) ELSE @]
  /\ mutex' = Free
  /\ pc' = [pc EXCEPT ![ScanThread] = "idle"]
  /\ loc' = [loc EXCEPT !.trajectory = "A", !.l2g = Identity]

(***************************************************************************)
(* AddImuData                                                              *)
(***************************************************************************)
AddImuLock(h) ==
  /\ Alive /\ pc[ImuThread] = "idle" /\ mutex = Free
  /\ h \in fe.handles
  /\ loc.imu_calls < fe.max_imu
  /\ mutex' = ImuThread
  /\ loc' = [loc EXCEPT !.imu_trajectory = h, !.imu_calls = @ + 1]
  /\ pc' = [pc EXCEPT ![ImuThread] = "add_imu_locked"]
  /\ UNCHANGED <<g, fe>>

\* Lines 158-162, under the mutex.
AddImuDataLocked(S, trajectory) ==
  LET registered == [RegisterTrajectory(S, trajectory) EXCEPT
                       !.submitted = @ + 1]
  IN AddWorkItem(registered,
                 [kind |-> "imu", id |-> S.submitted, scan_index |-> 0,
                  matching_submap |-> nullptr, insertion_submaps |-> <<>>,
                  finished_submap |-> nullptr, pose |-> Identity,
                  trajectory |-> trajectory])

AddImuBody ==
  /\ Alive /\ pc[ImuThread] = "add_imu_locked" /\ mutex = ImuThread
  /\ g' = AddImuDataLocked(g, loc.imu_trajectory)
  /\ mutex' = Free
  /\ pc' = [pc EXCEPT ![ImuThread] = "idle"]
  /\ loc' = [loc EXCEPT !.imu_trajectory = "A"]
  /\ UNCHANGED fe

(***************************************************************************)
(* Matcher threads: a job resolves, accepted or rejected; an accepted      *)
(* global match links the two trajectories.                                *)
(***************************************************************************)
Resolved(S, accept) ==
  LET job == Head(S.pending_jobs)
      popped == [S EXCEPT !.pending_jobs = Tail(@)]
  IN IF ~accept THEN popped
     ELSE [popped EXCEPT
          !.results = Append(@, [submap_id |-> job.submap_id,
                                 node_id |-> job.node_id,
                                 tag |-> "INTER_SUBMAP"]),
          !.trajectory_connectivity =
             IF job.global
             THEN Connect(@, job.scan_trajectory_id,
                          job.submap_id.trajectory_id)
             ELSE @]

ResolveJob ==
  /\ Alive /\ g.pending_jobs # <<>>
  /\ \E accept \in BOOLEAN :
       g' = Resolved(g, accept)
  /\ UNCHANGED <<mutex, pc, loc, fe>>

\* The idle pool thread that takes the next task.
NextPoolThread ==
  PoolOrder[CHOOSE i \in 1 .. Len(PoolOrder) :
              /\ pc[PoolOrder[i]] = "idle"
              /\ \A j \in 1 .. (i - 1) : pc[PoolOrder[j]] # "idle"]

RemoveAt(seq, k) == SubSeq(seq, 1, k - 1) \o SubSeq(seq, k + 1, Len(seq))

\* The matcher is idle: a registered callback is invoked with the result.
FireCallback(p) ==
  /\ Alive /\ pc[p] = "idle" /\ p = NextPoolThread
  /\ MatcherIdle(g)
  /\ \E k \in 1 .. Len(g.when_done) :
       /\ loc' = [loc EXCEPT !.callback[p] = g.when_done[k],
                             !.result[p] = g.results,
                             !.seen[p] = g.constraints]
       /\ g' = [g EXCEPT !.when_done = RemoveAt(@, k), !.results = <<>>]
  /\ pc' = [pc EXCEPT ![p] = "cb_insert"]
  /\ UNCHANGED <<mutex, fe>>

\* Lines 308 and 353: constraints_.insert, before any MutexLocker.
InsertResult(S, result) == [S EXCEPT !.constraints = @ \o result]

\* The same insert when another thread has written constraints_ since the
\* insert began (a data race): the insert may also write its result behind
\* the end it read at its start, and the other thread's writes are lost.
\* An empty result writes nothing.
RacedInsertResults(S, seen, result) ==
  IF result # <<>> /\ S.constraints # seen
  THEN {[S EXCEPT !.constraints = seen \o result]}
  ELSE {}

CallbackInsert(p) ==
  /\ Alive /\ pc[p] = "cb_insert"
  /\ g' \in {InsertResult(g, loc.result[p])}
             \cup RacedInsertResults(g, loc.seen[p], loc.result[p])
  /\ loc' = [loc EXCEPT !.result[p] = <<>>, !.seen[p] = <<>>]
  /\ pc' = [pc EXCEPT ![p] = IF loc.callback[p] = "queue" THEN "ro_check"
                             ELSE "cbw_lock"]
  /\ UNCHANGED <<mutex, fe>>

(***************************************************************************)
(* RunOptimization, called by the queue-driven callback (a pool thread)    *)
(* and by RunFinalOptimization (the lifecycle thread).                     *)
(***************************************************************************)
ReturnFromRunOptimization(p) == IF p = LifeThread THEN "rf_restore"
                                ELSE "cbq_lock"

\* Lines 372-375: the early return, else Solve starts, outside the mutex.
RunOptimizationStart(p) ==
  /\ Alive /\ pc[p] = "ro_check"
  /\ IF g.submap_data = <<>>
     THEN /\ pc' = [pc EXCEPT ![p] = ReturnFromRunOptimization(p)]
          /\ UNCHANGED loc
     ELSE /\ pc' = [pc EXCEPT ![p] = "ro_solving"]
          /\ loc' = IF p = LifeThread
                    THEN [loc EXCEPT !.final_iterations = g.max_num_iterations]
                    ELSE loc
  /\ UNCHANGED <<g, mutex, fe>>

SolveEnd(p) ==
  /\ Alive /\ pc[p] = "ro_solving"
  /\ \E shift \in SolveShifts : g' = Solved(g, shift)
  /\ pc' = [pc EXCEPT ![p] = "ro_lock"]
  /\ UNCHANGED <<mutex, loc, fe>>

RunOptimizationLock(p) ==
  /\ Alive /\ pc[p] = "ro_lock" /\ mutex = Free
  /\ mutex' = p
  /\ pc' = [pc EXCEPT ![p] = "ro_locked"]
  /\ UNCHANGED <<g, loc, fe>>

RunOptimizationBody(p) ==
  /\ Alive /\ pc[p] = "ro_locked" /\ mutex = p
  /\ g' = RunOptimizationLocked(g)
  /\ mutex' = Free
  /\ pc' = [pc EXCEPT ![p] = ReturnFromRunOptimization(p)]
  /\ UNCHANGED <<loc, fe>>

(***************************************************************************)
(* The queue-driven callback of HandleScanQueue, lines 311-324.            *)
(***************************************************************************)
QueueCallbackLock(p) ==
  /\ Alive /\ pc[p] = "cbq_lock" /\ mutex = Free
  /\ mutex' = p
  /\ pc' = [pc EXCEPT ![p] = "cbq_locked"]
  /\ UNCHANGED <<g, loc, fe>>

QueueCallbackLocked(S) ==
  IF ~S.scan_queue.allocated THEN Fail(S, "scan_queue_ is null in callback")
  ELSE DrainScanQueue([S EXCEPT !.num_scans_since_last_loop_closure = 0,
                                !.run_loop_closure = FALSE])

QueueCallbackDrain(p) ==
  /\ Alive /\ pc[p] = "cbq_locked" /\ mutex = p
  /\ g' = QueueCallbackLocked(g)
  /\ mutex' = Free
  /\ pc' = [pc EXCEPT ![p] = "idle"]
  /\ loc' = [loc EXCEPT !.callback[p] = "none"]
  /\ UNCHANGED fe

(***************************************************************************)
(* WaitForAllComputations and its callback, lines 328-358.                 *)
(***************************************************************************)
WaitCallbackLock(p) ==
  /\ Alive /\ pc[p] = "cbw_lock" /\ mutex = Free
  /\ mutex' = p
  /\ pc' = [pc EXCEPT ![p] = "cbw_locked"]
  /\ UNCHANGED <<g, loc, fe>>

WaitCallbackNotify(p) ==
  /\ Alive /\ pc[p] = "cbw_locked" /\ mutex = p
  /\ loc' = [loc EXCEPT !.notification = TRUE, !.callback[p] = "none"]
  /\ mutex' = Free
  /\ pc' = [pc EXCEPT ![p] = "idle"]
  /\ UNCHANGED <<g, fe>>

\* The public calls that start with WaitForAllComputations.
LifecycleOps == {"RunFinalOptimization", "~SparsePoseGraph"}

LifecycleCall(op) ==
  /\ Alive /\ pc[LifeThread] = "idle"
  /\ loc.calls < fe.max_calls
  /\ loc' = [loc EXCEPT !.op = op, !.calls = @ + 1, !.notification = FALSE,
                        !.cap_before = g.max_num_iterations,
                        !.final_iterations = 0]
  /\ pc' = [pc EXCEPT ![LifeThread] = "w_await"]
  /\ UNCHANGED <<g, mutex, fe>>

\* Lines 333-338: the predicate of AwaitWithTimeout.
AllScansFinished(S) == GetNumFinishedScans(S) = Len(S.trajectory_nodes)

WaitAwaitFinished ==
  /\ Alive /\ pc[LifeThread] = "w_await" /\ mutex = Free
  /\ AllScansFinished(g)
  /\ mutex' = LifeThread
  /\ pc' = [pc EXCEPT ![LifeThread] = "w_locked"]
  /\ UNCHANGED <<g, loc, fe>>

\* Lines 350-357: register the callback, then Await releases the mutex.
WaitRegister ==
  /\ Alive /\ pc[LifeThread] = "w_locked" /\ mutex = LifeThread
  /\ g' = WhenDone(g, "wait")
  /\ mutex' = Free
  /\ pc' = [pc EXCEPT ![LifeThread] = "w_notify"]
  /\ UNCHANGED <<loc, fe>>

AfterWait(op) ==
  IF op = "RunFinalOptimization" THEN "rf_setcap" ELSE "dtor_check"

WaitReturn ==
  /\ Alive /\ pc[LifeThread] = "w_notify" /\ mutex = Free
  /\ loc.notification
  /\ pc' = [pc EXCEPT ![LifeThread] = AfterWait(loc.op)]
  /\ UNCHANGED <<g, mutex, loc, fe>>

(***************************************************************************)
(* RunFinalOptimization, lines 360-369, and the destructor, lines 49-53.   *)
(***************************************************************************)
SetMaxNumIterations(S, n) == [S EXCEPT !.max_num_iterations = n]

FinalSetCap ==
  /\ Alive /\ pc[LifeThread] = "rf_setcap"
  /\ g' = SetMaxNumIterations(g, MaxNumFinalIterations)
  /\ pc' = [pc EXCEPT ![LifeThread] = "ro_check"]
  /\ UNCHANGED <<mutex, loc, fe>>

\* Variant of RestoreMaxNumIterations: the raised cap is left in place.
RestoreMaxNumIterationsSkipped(S) == S

RestoreMaxNumIterations(S) == SetMaxNumIterations(S, MaxNumIterations)

FinalRestoreCap ==
  /\ Alive /\ pc[LifeThread] = "rf_restore"
  /\ g' = RestoreMaxNumIterations(g)
  /\ pc' = [pc EXCEPT ![LifeThread] = "idle"]
  /\ UNCHANGED <<mutex, loc, fe>>

DestructorChecked(S) ==
  IF S.scan_queue.allocated
  THEN Fail(S, "CHECK(scan_queue_ == nullptr)")
  ELSE [S EXCEPT !.destroyed = TRUE]

DestructorCheck ==
  /\ Alive /\ pc[LifeThread] = "dtor_check" /\ mutex = Free
  /\ g' = DestructorChecked(g)
  /\ pc' = [pc EXCEPT ![LifeThread] = "destroyed"]
  /\ UNCHANGED <<mutex, loc, fe>>

(***************************************************************************)
(* Specifications                                                          *)
(***************************************************************************)
ScanIngestion ==
  \/ \E h \in Handles : AddScanLookup(h)
  \/ AddScanLock
  \/ AddScanBody

ImuIngestion ==
  \/ \E h \in Handles : AddImuLock(h)
  \/ AddImuBody

Matcher ==
  \/ ResolveJob
  \/ \E p \in Pool : FireCallback(p)
  \/ \E p \in Pool : CallbackInsert(p)

QueueCallback ==
  \/ \E p \in Pool : RunOptimizationStart(p)
  \/ \E p \in Pool : SolveEnd(p)
  \/ \E p \in Pool : RunOptimizationLock(p)
  \/ \E p \in Pool : RunOptimizationBody(p)
  \/ \E p \in Pool : QueueCallbackLock(p)
  \/ \E p \in Pool : QueueCallbackDrain(p)

Lifecycle ==
  \/ \E op \in LifecycleOps : LifecycleCall(op)
  \/ WaitAwaitFinished
  \/ WaitRegister
  \/ WaitReturn
  \/ \E p \in Pool : WaitCallbackLock(p)
  \/ \E p \in Pool : WaitCallbackNotify(p)
  \/ FinalSetCap
  \/ RunOptimizationStart(LifeThread)
  \/ SolveEnd(LifeThread)
  \/ RunOptimizationLock(LifeThread)
  \/ RunOptimizationBody(LifeThread)
  \/ FinalRestoreCap
  \/ DestructorCheck

\* Scans of one trajectory, the matcher, its callbacks and the lifecycle
\* calls.
Init == InitWith({"A"}, MaxScansWithLifecycle, 0, MaxLifecycleCalls)
Next == ScanIngestion \/ Matcher \/ QueueCallback \/ Lifecycle
Spec == Init /\ [][Next]_vars

\* Scans and IMU data of one trajectory, the matcher and its callbacks.
InitIngest == InitWith({"A"}, MaxScans, MaxImu, 0)
NextIngest == ScanIngestion \/ ImuIngestion \/ Matcher \/ QueueCallback
IngestSpec == InitIngest /\ [][NextIngest]_vars

\* Scans of two trajectories, the matcher and its callbacks.
InitMulti == InitWith(Handles, MaxScans, 0, 0)
NextMulti == ScanIngestion \/ Matcher \/ QueueCallback
MultiSpec == InitMulti /\ [][NextMulti]_vars

\* As MultiSpec, with a sampling ratio strictly between 0 and 1 and one more
\* scan.
InitSampling ==
  /\ \E n \in OptimizeEveryNScansChoices, ratio \in SampledRatioChoices :
       g = InitGraph(n, ratio)
  /\ mutex = Free
  /\ pc = [t \in Threads |-> "idle"]
  /\ loc = InitLocals
  /\ fe = InitFrontEnd(Handles, MaxScansSampled, 0, 0)
SamplingSpec == InitSampling /\ [][NextMulti]_vars

\* As Spec, with as many scans as the ingestion-only specifications.
InitLong == InitWith({"A"}, MaxScans, 0, MaxLifecycleCalls)
LongSpec == InitLong /\ [][Next]_vars

\* Scans and IMU data of two trajectories, the matcher and its callbacks.
InitReg == InitWith(Handles, MaxScansWithLifecycle, MaxImu, 0)
RegSpec == InitReg /\ [][NextIngest]_vars

\* The short steps the program takes on its own: a call that has started
\* takes the mutex, the matcher resolves its jobs, the thread pool runs the
\* callbacks handed to it up to their locked part.
Progress ==
  \/ AddScanLock \/ AddImuBody
  \/ Matcher
  \/ \E p \in Pool : RunOptimizationStart(p)
  \/ \E p \in Pool : SolveEnd(p)
  \/ \E p \in Pool : RunOptimizationLock(p)
  \/ \E p \in Pool : RunOptimizationBody(p)
  \/ \E p \in Pool : QueueCallbackLock(p)

\* The two bodies that run work items under the mutex, seen on the program
\* counter: the thread inside AddScanBody or QueueCallbackDrain leaves it.
LockedBodyReturns ==
  /\ Alive
  /\ \/ /\ pc[ScanThread] = "add_scan_locked"
        /\ pc' = [pc EXCEPT ![ScanThread] = "idle"]
     \/ \E p \in Pool : /\ pc[p] = "cbq_locked"
                        /\ pc' = [pc EXCEPT ![p] = "idle"]

\* Fairness: the program does not stop while one of its own steps is
\* possible.  The environment is not obliged to make further calls.
Fairness == WF_vars(Progress) /\ WF_pc(LockedBodyReturns)

LiveSpec == InitIngest /\ [][NextIngest]_vars /\ Fairness

(***************************************************************************)
(* Properties                                                              *)
(***************************************************************************)
Range(seq) == {seq[k] : k \in 1 .. Len(seq)}

\* The ids of the queued work items, in queue order.
QueuedIds(S) ==
  [k \in 1 .. Len(S.scan_queue.items) |-> S.scan_queue.items[k].id]

\* <<0, 1, ..., n - 1>>.
Iota(n) == [k \in 1 .. n |-> k - 1]

\* The state held by optimization_problem_.
OptimizationProblemState(S) == <<S.submap_data, S.node_data, S.imu_data>>

\* A step in which AddScan or AddImuData hands its closure to AddWorkItem.
SubmitStep ==
  \/ pc[ScanThread] = "add_scan_locked" /\ pc'[ScanThread] = "idle"
  \/ pc[ImuThread] = "add_imu_locked" /\ pc'[ImuThread] = "idle"

\* The locked part of the queue-driven callback.
DrainStep == \E p \in Pool : pc[p] = "cbq_locked" /\ pc'[p] = "idle"

C1_SubmitStep ==
  SubmitStep =>
    IF ~g.scan_queue.allocated
    THEN /\ g'.executed = Append(g.executed, g.submitted)
         /\ g.submitted \notin Range(QueuedIds(g'))
    ELSE /\ g'.executed = g.executed
         /\ QueuedIds(g') = Append(QueuedIds(g), g.submitted)
         /\ OptimizationProblemState(g') = OptimizationProblemState(g)

\* C1: AddWorkItem runs the submitted work item inline exactly when
\* scan_queue_ is null; when scan_queue_ is non-null the item is only
\* appended to the queue, and the AddScan or AddImuData step leaves the
\* optimization problem untouched.
C1_InlineIffQueueNull == [][C1_SubmitStep]_vars

\* A work item is buffered behind a pending optimization while earlier ones
\* have run inline.
C1_Witness ==
  /\ g.scan_queue.allocated /\ g.scan_queue.items # <<>>
  /\ g.executed # <<>>

\* C2: every submitted work item is executed or still queued, exactly once,
\* and the executed ones followed by the queued ones are in the order of
\* submission (the order of mutex acquisition); the assertion
\* CHECK_EQ(scan_index, scan_index_to_node_id_.size()) never fails.
C2_ExactlyOnceInOrder ==
  /\ g.executed \o QueuedIds(g) = Iota(g.submitted)
  /\ g.failed # "CHECK_EQ(scan_index, scan_index_to_node_id_.size())"

\* Two work items are buffered after others have run inline: synchronous
\* mode, then deferred mode.
C2_Witness ==
  /\ Len(g.scan_queue.items) >= 2
  /\ Len(g.executed) >= 2

\* C3: the optimization flag is up exactly when optimize_every_n_scans is
\* positive and the counter of scans since the last optimization exceeds
\* it; it goes up on scan n + 1 and the queue is then non-null.  With
\* optimize_every_n_scans = 0 the flag is never up, scan_queue_ is always
\* null and every submitted work item has run inline.
C3_PeriodicTrigger ==
  /\ g.run_loop_closure <=>
       /\ g.optimize_every_n_scans > 0
       /\ g.num_scans_since_last_loop_closure > g.optimize_every_n_scans
  /\ g.run_loop_closure =>
       /\ g.scan_queue.allocated
       /\ g.num_scans_since_last_loop_closure = g.optimize_every_n_scans + 1
  /\ g.optimize_every_n_scans = 0 =>
       /\ ~g.scan_queue.allocated
       /\ Len(g.executed) = g.submitted

\* Scan n + 1 has raised the flag and the callback is registered.
C3_Witness ==
  /\ g.run_loop_closure
  /\ g.num_scans_since_last_loop_closure = g.optimize_every_n_scans + 1
  /\ "queue" \in Range(g.when_done)

C4_DrainStep ==
  DrainStep =>
    LET consumed == Len(g.scan_queue.items) - Len(g'.scan_queue.items)
    IN IF g'.run_loop_closure
       THEN /\ g'.scan_queue.allocated
            /\ "queue" \in Range(g'.when_done)
            /\ consumed >= 1
            /\ g'.scan_queue.items =
                 SubSeq(g.scan_queue.items, consumed + 1,
                        Len(g.scan_queue.items))
            /\ g'.executed = g.executed \o SubSeq(QueuedIds(g), 1, consumed)
       ELSE /\ ~g'.scan_queue.allocated
            /\ g'.executed = g.executed \o QueuedIds(g)

C4_QueuedItemsWait ==
  (g.scan_queue.allocated /\ g'.executed # g.executed) => DrainStep

\* C4: once scan_queue_ is non-null it is eventually reset to null, with
\* every queued item executed by then.  When the flag is raised again while
\* the callback drains the queue, draining stops there, the callback is
\* registered again and the remaining items stay queued; queued items run
\* only in the locked part of the callback, which follows its solve.
C4_QueueEventuallyDrained ==
  /\ g.scan_queue.allocated
       ~> (~g.scan_queue.allocated /\ Len(g.executed) = g.submitted)
  /\ [][C4_DrainStep /\ C4_QueuedItemsWait]_vars

\* The flag was raised during a drain that left items queued, and the queue
\* has since been drained and reset.
C4_Witness ==
  /\ g.left_over > 0
  /\ ~g.scan_queue.allocated
  /\ Len(g.executed) = g.submitted

\* WaitForAllComputations returns to its caller.
WaitReturnStep ==
  pc[LifeThread] = "w_notify" /\ pc'[LifeThread] # "w_notify"

\* C5: when WaitForAllComputations returns, scan_queue_ is null: every
\* queue-driven callback has run to its end by then, and the destructor's
\* CHECK(scan_queue_ == nullptr) does not fail.
C5_QueueNullAfterWait ==
  /\ [][WaitReturnStep => ~g'.scan_queue.allocated]_vars
  /\ [](g.failed # "CHECK(scan_queue_ == nullptr)")

\* The places where a thread is about to read or write constraints_ or the
\* state of the optimization problem: the bodies of AddScan and AddImuData,
\* constraints_.insert in the callbacks, and RunOptimization from its test
\* of submap_data() through Solve to its locked part, and the drain.
AccessesGuardedState(t) ==
  pc[t] \in {"add_scan_locked", "add_imu_locked", "cb_insert", "ro_check",
             "ro_solving", "ro_locked", "cbq_locked"}

\* C6: a thread that reads or writes constraints_ or the optimizer state
\* holds the mutex, the callbacks' constraints_.insert and the solve
\* included.
C6_AccessUnderMutex ==
  \A t \in Threads : AccessesGuardedState(t) => mutex = t

\* The locked part of AddScan.
AddScanBodyStep ==
  pc[ScanThread] = "add_scan_locked" /\ pc'[ScanThread] = "idle"

\* C7: the node AddScan appends carries the scan's pose mapped by the
\* local-to-global transform as it is when the node is appended: the lookup
\* and the append act as one critical section.
C7_LookupAndAppendAtomic ==
  [][AddScanBodyStep =>
       LET node == g'.trajectory_nodes[Len(g.trajectory_nodes) + 1]
       IN node.pose = Compose(GetLocalToGlobalTransform(g, loc.trajectory),
                              node.scan_pose)]_vars

SameComponent(components, a, b) == \E c \in components : a \in c /\ b \in c

\* An accepted global constraint has linked a and b, directly or through
\* other trajectories.
Linked(S, a, b) ==
  SameComponent(ConnectedComponents(S.trajectory_connectivity), a, b)

\* The locked part of RunOptimization.
RunOptimizationBodyStep ==
  \E t \in Threads : pc[t] = "ro_locked" /\ pc'[t] # "ro_locked"

\* C8 as stated: GetConnectedTrajectories puts two trajectories in one
\* component exactly when an accepted constraint has linked them, as soon
\* as the constraint is accepted.
C8_ComponentsFollowLinks ==
  \A a, b \in TrajectoryIds :
    a # b => (SameComponent(GetConnectedTrajectories(g), a, b)
                <=> Linked(g, a, b))

\* C8, amended: GetConnectedTrajectories never reports two trajectories
\* together that no accepted constraint has linked; its answer changes only
\* in the locked part of RunOptimization, and right after that part it is
\* exactly the components of the accepted links.
C8_ComponentsAsOfLastOptimization ==
  /\ [](\A a, b \in TrajectoryIds :
          (a # b /\ SameComponent(GetConnectedTrajectories(g), a, b))
            => Linked(g, a, b))
  /\ [][/\ RunOptimizationBodyStep =>
             GetConnectedTrajectories(g')
               = ConnectedComponents(g'.trajectory_connectivity)
        /\ GetConnectedTrajectories(g') # GetConnectedTrajectories(g)
             => RunOptimizationBodyStep]_vars

\* Two trajectories are reported in one component.
C8_Witness == SameComponent(GetConnectedTrajectories(g), 0, 1)

\* AddScan looks up the transform of a trajectory that is not registered.
UnregisteredLookupStep ==
  /\ pc[ScanThread] = "idle" /\ pc'[ScanThread] = "add_scan"
  /\ g.trajectory_ids[loc'.trajectory] < 0

\* C9 as stated: GetLocalToGlobalTransform returns the identity for a
\* trajectory that has never been registered, whatever the local pose of
\* its first submap.
C9_IdentityBeforeRegistration ==
  [][UnregisteredLookupStep => loc'.l2g = Identity]_vars

\* C9, amended: for a trajectory that has never been registered
\* GetLocalToGlobalTransform returns the inverse of the local pose of its
\* first submap, which is the identity exactly when that local pose is.
C9_InverseOfFirstLocalPose ==
  [][UnregisteredLookupStep =>
       /\ loc'.l2g = Inverse(LocalPose(<<loc'.trajectory, 0>>))
       /\ loc'.l2g = Identity
            <=> LocalPose(<<loc'.trajectory, 0>>) = Identity]_vars

\* Both cases have been looked up: the second trajectory, whose first
\* submap has the identity as local pose, after the first one, whose first
\* submap does not.
C9_Witness ==
  /\ pc[ScanThread] = "add_scan"
  /\ g.trajectory_ids[loc.trajectory] < 0
  /\ LocalPose(<<loc.trajectory, 0>>) = Identity
  /\ \E h \in Handles : /\ g.trajectory_ids[h] >= 0
                        /\ LocalPose(<<h, 0>>) # Identity

\* The lifecycle thread is inside RunFinalOptimization, past the wait.
InFinalOptimization ==
  pc[LifeThread] \in {"rf_setcap", "ro_check", "ro_solving", "ro_lock",
                      "ro_locked", "rf_restore"}

C10_FinalStep ==
  /\ (pc[LifeThread] = "rf_setcap" /\ pc'[LifeThread] # "rf_setcap")
       => g'.max_num_iterations = MaxNumFinalIterations
  /\ (pc[LifeThread] = "rf_restore" /\ pc'[LifeThread] = "idle")
       => g'.max_num_iterations = loc.cap_before

\* C10: RunFinalOptimization first waits for all computations, then raises
\* the iteration cap to max_num_final_iterations, runs the optimization
\* driver under that cap, and restores the cap: when it returns, the cap is
\* what it was before the call, also when the driver returned early.
C10_FinalOptimization ==
  /\ [](InFinalOptimization => loc.notification)
  /\ [](pc[LifeThread] = "ro_solving"
          => loc.final_iterations = MaxNumFinalIterations)
  /\ [](pc[LifeThread] = "idle" => g.max_num_iterations = loc.cap_before)
  /\ [][C10_FinalStep]_vars

\* RunFinalOptimization has returned after a solve under the raised cap.
C10_Witness ==
  /\ pc[LifeThread] = "idle" /\ loc.op = "RunFinalOptimization"
  /\ loc.final_iterations = MaxNumFinalIterations
  /\ g.max_num_iterations = MaxNumIterations

\* The handles registered in trajectory_ids_ and the submaps registered in
\* submap_ids_ for trajectory t.
RegisteredHandles(S) == {h \in Handles : S.trajectory_ids[h] >= 0}
SubmapsOf(S, t) == {e \in S.submap_ids : e[2].trajectory_id = t}

C11_Dense ==
  /\ {g.trajectory_ids[h] : h \in RegisteredHandles(g)}
       = 0 .. (Cardinality(RegisteredHandles(g)) - 1)
  /\ \A h1, h2 \in RegisteredHandles(g) :
       g.trajectory_ids[h1] = g.trajectory_ids[h2] => h1 = h2
  /\ \A t \in TrajectoryIds :
       /\ {e[2].submap_index : e \in SubmapsOf(g, t)}
            = 0 .. (Cardinality(SubmapsOf(g, t)) - 1)
       /\ \A e1, e2 \in SubmapsOf(g, t) :
            e1[2].submap_index = e2[2].submap_index => e1 = e2

C11_Step ==
  /\ \A h \in Handles :
       IF g.trajectory_ids[h] >= 0
       THEN g'.trajectory_ids[h] = g.trajectory_ids[h]
       ELSE g'.trajectory_ids[h] \in {-1, Cardinality(RegisteredHandles(g))}
  /\ g.submap_ids \subseteq g'.submap_ids
  /\ \A e \in g'.submap_ids \ g.submap_ids :
       e[2].submap_index = Cardinality(SubmapsOf(g, e[2].trajectory_id))

\* C11: trajectory ids are exactly 0..n-1, given in the order of first
\* registration; the submap indices of each trajectory are exactly 0..m-1,
\* given in the order of first registration; a step that registers a known
\* trajectory or submap handle again changes no id.
C11_DenseIds == []C11_Dense /\ [][C11_Step]_vars

\* Both trajectories are registered, the one whose handle comes second
\* first, a trajectory has two submaps, and a known handle was used again.
C11_Witness ==
  /\ g.trajectory_ids["B"] = 0 /\ g.trajectory_ids["A"] = 1
  /\ \E t \in TrajectoryIds : Cardinality(SubmapsOf(g, t)) = 2
  /\ Len(g.trajectory_nodes) >= 3

\* The flat scan indices (counted from 1) of the processed scans of
\* trajectory t.
ProcessedScansOf(S, t) ==
  {i \in 1 .. Len(S.scan_index_to_node_id) :
     S.scan_index_to_node_id[i].trajectory_id = t}

\* The number of nodes the optimizer holds for trajectory t.
NumOptimizerNodes(S, t) == IF t < Len(S.node_data) THEN Len(S.node_data[t + 1])
                           ELSE 0

\* C12: scan_index_to_node_id_ is injective; the node index of a processed
\* scan is the number of scans of its trajectory processed before it, so
\* the node indices of a trajectory are 0..k-1 in flat scan order; the
\* per-trajectory counter and the length of the optimizer's node list both
\* equal k, so a node's index is its position in that list.
C12_NodeIdsDense ==
  /\ \A i, j \in 1 .. Len(g.scan_index_to_node_id) :
       g.scan_index_to_node_id[i] = g.scan_index_to_node_id[j] => i = j
  /\ \A i \in 1 .. Len(g.scan_index_to_node_id) :
       LET id == g.scan_index_to_node_id[i]
       IN /\ id.trajectory_id = g.trajectory_nodes[i].trajectory_id
          /\ id.node_index
               = Cardinality({j \in ProcessedScansOf(g, id.trajectory_id) :
                                j < i})
  /\ \A t \in TrajectoryIds :
       /\ g.num_nodes_in_trajectory[t]
            = Cardinality(ProcessedScansOf(g, t))
       /\ NumOptimizerNodes(g, t) = Cardinality(ProcessedScansOf(g, t))

\* Four scans are processed, two of each trajectory, interleaved.
C12_Witness ==
  /\ Len(g.scan_index_to_node_id) = 4
  /\ g.scan_index_to_node_id[1].trajectory_id
       # g.scan_index_to_node_id[2].trajectory_id
  /\ g.scan_index_to_node_id[3].node_index = 1
  /\ g.scan_index_to_node_id[4].node_index = 1

\* The positions in constraints_ of the constraints with the given tag,
\* submap id and node id, and of those with the given tag and node id.
ConstraintsAt(S, tag, submap_id, node_id) ==
  {k \in 1 .. Len(S.constraints) :
     /\ S.constraints[k].tag = tag
     /\ S.constraints[k].submap_id = submap_id
     /\ S.constraints[k].node_id = node_id}

ConstraintsOfNode(S, tag, node_id) ==
  {k \in 1 .. Len(S.constraints) :
     S.constraints[k].tag = tag /\ S.constraints[k].node_id = node_id}

\* The ids of the registered submaps whose node_ids hold node_id.
SubmapsHolding(S, node_id) ==
  {e[2] : e \in {e \in S.submap_ids :
                   node_id \in At(S.submap_states, e[2].trajectory_id,
                                  e[2].submap_index).node_ids}}

\* C13: a node is in a submap's node_ids exactly when constraints_ holds
\* exactly one INTRA_SUBMAP constraint of that submap and node; a processed
\* scan has as many intra-submap constraints as it had insertion submaps,
\* all of them placed before every matcher-produced constraint of its node.
C13_IntraConstraints ==
  \A n \in Range(g.scan_index_to_node_id) :
    /\ \A e \in g.submap_ids :
         (n \in At(g.submap_states, e[2].trajectory_id,
                   e[2].submap_index).node_ids)
           <=> Cardinality(ConstraintsAt(g, "INTRA_SUBMAP", e[2], n)) = 1
    /\ Cardinality(ConstraintsOfNode(g, "INTRA_SUBMAP", n))
         = Cardinality(SubmapsHolding(g, n))
    /\ \A k \in ConstraintsOfNode(g, "INTRA_SUBMAP", n),
          m \in ConstraintsOfNode(g, "INTER_SUBMAP", n) : k < m

\* The submap state of a registered submap id.
StateOf(S, id) == At(S.submap_states, id.trajectory_id, id.submap_index)

\* The ids of the submaps that have a state.
SubmapStateIds(S) ==
  {SubmapId(t - 1, i - 1) : t \in 1 .. Len(S.submap_states),
                            i \in 1 .. MaxScans + 1}
    \cap {id \in [trajectory_id : TrajectoryIds, submap_index : 0 .. MaxScans] :
            InRange(S.submap_states, id.trajectory_id, id.submap_index)}

\* The positions in constraints_ of the intra-submap constraints of a submap.
IntraConstraintsOf(S, id) ==
  {k \in 1 .. Len(S.constraints) :
     S.constraints[k].tag = "INTRA_SUBMAP" /\ S.constraints[k].submap_id = id}

C14_Step ==
  \A id \in SubmapStateIds(g) :
    StateOf(g, id).finished =>
      /\ StateOf(g', id).finished
      /\ StateOf(g', id).node_ids = StateOf(g, id).node_ids
      /\ IntraConstraintsOf(g', id) \subseteq IntraConstraintsOf(g, id)

\* C14: a finished submap stays finished, and from then on its node_ids and
\* its intra-submap constraints do not change; with the front end following
\* the sliding-window protocol neither CHECK(!finished) of an insertion
\* submap (line 244) nor CHECK(!finished_submap_state.finished) (line 285)
\* fails.
C14_FinishedOnce ==
  /\ [][C14_Step]_vars
  /\ [](g.failed \notin {"CHECK(!insertion submap finished)",
                         "CHECK(!finished_submap_state.finished)"})

\* A submap is finished and a scan that is not in it was processed, while
\* the scan queue exists.
C14_Witness ==
  /\ g.scan_queue.allocated
  /\ \E id \in SubmapStateIds(g) :
       /\ StateOf(g, id).finished
       /\ \E n \in Range(g.scan_index_to_node_id) :
            n \notin StateOf(g, id).node_ids

\* The flat indices of the scans for which a match against the submap was
\* proposed to the constraint builder.
ProposedScans(S, id) ==
  {S.proposals[k].scan_index :
     k \in {k \in 1 .. Len(S.proposals) : S.proposals[k].submap_id = id}}

\* Scenario 3: one trajectory; scans 0 and 1 were inserted into [submap0],
\* scan 2 into [submap0, submap1], scan 3 into [submap1, submap2] with
\* submap1 reported finished, and scan 3 is the last scan processed.
SubmapFinishesScenario ==
  /\ g.failed = NoFailure
  /\ Len(g.scan_index_to_node_id) = 4
  /\ Len(g.submap_states) = 1 /\ Len(g.submap_states[1]) = 3
  /\ g.submap_states[1][1].node_ids = {NodeId(0, 0), NodeId(0, 1), NodeId(0, 2)}
  /\ g.submap_states[1][2].node_ids = {NodeId(0, 2), NodeId(0, 3)}
  /\ g.submap_states[1][3].node_ids = {NodeId(0, 3)}
  /\ g.submap_states[1][2].finished

\* C15 as stated: in scenario 3 matches against submap1 are proposed for
\* scans 0, 1 and 2.
C15_ProposesScans012 ==
  SubmapFinishesScenario => ProposedScans(g, SubmapId(0, 1)) = {0, 1, 2}

\* C15 amended: in scenario 3 matches against submap1 are proposed for scans
\* 0 and 1 only; scan 2 was inserted into submap1 and is skipped, as is
\* scan 3.
C15_ProposesScans01 ==
  SubmapFinishesScenario => ProposedScans(g, SubmapId(0, 1)) = {0, 1}

C15_Witness ==
  SubmapFinishesScenario /\ ProposedScans(g, SubmapId(0, 1)) = {0, 1}

\* How often ComputeConstraint was invoked for the scan and the submap.
NumComputeConstraintCalls(S, scan_index, id) ==
  Cardinality({k \in 1 .. Len(S.computed) :
                 /\ S.computed[k].scan_index = scan_index
                 /\ S.computed[k].submap_id = id})

\* C16: for a processed scan and a submap, ComputeConstraint has been invoked
\* exactly once when the submap is finished and the scan's node is not in
\* its node_ids, and never when the scan was inserted into the submap or the
\* submap is unfinished.
C16_MatchedExactlyOnce ==
  g.failed = NoFailure =>
    \A scan_index \in 0 .. Len(g.scan_index_to_node_id) - 1 :
      \A id \in SubmapStateIds(g) :
        NumComputeConstraintCalls(g, scan_index, id) =
          IF /\ StateOf(g, id).finished
             /\ g.scan_index_to_node_id[scan_index + 1] \notin StateOf(g, id).node_ids
          THEN 1 ELSE 0

\* A scan was matched in the old-scan pass of a submap of its own trajectory,
\* another one in the per-scan pass against a submap of the other trajectory,
\* and a third was inserted into a finished submap.
C16_Witness ==
  /\ g.failed = NoFailure
  /\ \E k \in 1 .. Len(g.computed) :
       g.trajectory_nodes[g.computed[k].scan_index + 1].trajectory_id
         = g.computed[k].submap_id.trajectory_id
  /\ \E k \in 1 .. Len(g.computed) :
       g.trajectory_nodes[g.computed[k].scan_index + 1].trajectory_id
         # g.computed[k].submap_id.trajectory_id
  /\ \E id \in SubmapStateIds(g) :
       StateOf(g, id).finished /\ StateOf(g, id).node_ids # {}

\* The sampler pulses and the number of proposals found after the k-th call
\* of ComputeConstraint: what the next call finds, or the current state.
PulsesAfter(S, k) ==
  IF k < Len(S.computed) THEN S.computed[k + 1].num_pulses ELSE S.num_pulses

NumProposalsAfter(S, k) ==
  IF k < Len(S.computed) THEN S.computed[k + 1].num_proposals
  ELSE Len(S.proposals)

\* The matches proposed by the k-th call of ComputeConstraint.
ProposalsOfCall(S, k) ==
  SubSeq(S.proposals, S.computed[k].num_proposals + 1, NumProposalsAfter(S, k))

\* The two trajectories of a call are in one component of the live
\* connectivity, respectively of the components cached by the last
\* optimization.
ConnectedLive(call) ==
  SameComponent(ConnectedComponents(call.trajectory_connectivity),
                call.scan_trajectory_id, call.submap_id.trajectory_id)

ConnectedAsOfLastOptimization(call) ==
  SameComponent(call.connected_components,
                call.scan_trajectory_id, call.submap_id.trajectory_id)

\* The k-th call proposed what the rule asks for, given whether its two
\* trajectories count as connected.
FollowsProposalRule(S, k, connected) ==
  LET call == S.computed[k]
      made == ProposalsOfCall(S, k)
      local == Len(made) = 1 /\ ~made[1].global
      global == Len(made) = 1 /\ made[1].global
  IN /\ Len(made) <= 1
     /\ \A j \in 1 .. Len(made) :
          made[j].scan_index = call.scan_index /\ made[j].submap_id = call.submap_id
     /\ IF call.scan_trajectory_id = call.submap_id.trajectory_id
        THEN local /\ PulsesAfter(S, k) = call.num_pulses
        ELSE IF PulseResult(call, call.scan_trajectory_id) THEN global
        ELSE IF connected THEN local
        ELSE Len(made) = 0

\* C17 as stated: every call of ComputeConstraint proposes at most one match:
\* a local one without pulsing the sampler when scan and submap are of one
\* trajectory; a global one when they differ and the sampler fires; when
\* they differ and the sampler does not fire, a local one exactly when
\* accepted constraints have linked the two trajectories, else nothing.
C17_ProposalRuleLive ==
  g.failed = NoFailure =>
    \A k \in 1 .. Len(g.computed) :
      FollowsProposalRule(g, k, ConnectedLive(g.computed[k]))

\* C17 amended: as above, with the two trajectories counted as connected
\* when the most recent optimization put them in one component.
C17_ProposalRule ==
  g.failed = NoFailure =>
    \A k \in 1 .. Len(g.computed) :
      FollowsProposalRule(g, k, ConnectedAsOfLastOptimization(g.computed[k]))

\* Calls of all four kinds were made: same trajectory; sampler fired;
\* sampler silent and the trajectories linked by an accepted constraint that
\* no optimization has seen yet; sampler silent and the trajectories
\* connected as of the last optimization.
C17_Witness ==
  /\ g.failed = NoFailure
  /\ \E k \in 1 .. Len(g.computed) :
       g.computed[k].scan_trajectory_id = g.computed[k].submap_id.trajectory_id
  /\ \E k \in 1 .. Len(g.computed) :
       /\ g.computed[k].scan_trajectory_id # g.computed[k].submap_id.trajectory_id
       /\ PulseResult(g.computed[k], g.computed[k].scan_trajectory_id)
  /\ \E k \in 1 .. Len(g.computed) :
       /\ g.computed[k].scan_trajectory_id # g.computed[k].submap_id.trajectory_id
       /\ ~PulseResult(g.computed[k], g.computed[k].scan_trajectory_id)
       /\ ConnectedLive(g.computed[k])
       /\ Len(ProposalsOfCall(g, k)) = 0
  /\ \E k \in 1 .. Len(g.computed) :
       /\ g.computed[k].scan_trajectory_id # g.computed[k].submap_id.trajectory_id
       /\ ~PulseResult(g.computed[k], g.computed[k].scan_trajectory_id)
       /\ ConnectedAsOfLastOptimization(g.computed[k])
       /\ Len(ProposalsOfCall(g, k)) = 1

\* The number of submaps the optimizer holds for trajectory t, and the
\* number of submap states of t.
NumOptimizerSubmaps(S, t) ==
  IF t < Len(S.submap_data) THEN Len(S.submap_data[t + 1]) ELSE 0

NumSubmapStates(S, t) ==
  IF t < Len(S.submap_states) THEN Len(S.submap_states[t + 1]) ELSE 0

\* The submap indices of trajectory t whose node_ids gain a node in the step.
InsertedInStep(t) ==
  {i \in 0 .. NumSubmapStates(g', t) - 1 :
     At(g'.submap_states, t, i).node_ids
       # (IF i < NumSubmapStates(g, t) THEN At(g.submap_states, t, i).node_ids
          ELSE {})}

C18_State ==
  /\ g.failed \notin {"CHECK_LE(second_submap_id.submap_index, next_submap_index)",
                      "submap_data.at(trajectory_id)",
                      "submap_data.at(first_submap_id)"}
  /\ g.failed = NoFailure =>
       /\ \A t \in TrajectoryIds :
            NumOptimizerSubmaps(g, t) <= NumSubmapStates(g, t)
       /\ \A id \in SubmapStateIds(g) :
            StateOf(g, id).node_ids # {} =>
              InRange(g.submap_data, id.trajectory_id, id.submap_index)

C18_Step ==
  g'.failed = NoFailure =>
    \A t \in TrajectoryIds :
      LET grown == NumOptimizerSubmaps(g', t) - NumOptimizerSubmaps(g, t)
          scans == Cardinality(ProcessedScansOf(g', t))
                     - Cardinality(ProcessedScansOf(g, t))
          count == NumOptimizerSubmaps(g, t)
          into == InsertedInStep(t)
      IN /\ 0 <= grown /\ grown <= scans
         /\ scans = 1 /\ Cardinality(into) = 1 =>
              grown = (IF count = 0 THEN 1 ELSE 0)
         /\ scans = 1 /\ Cardinality(into) = 2 =>
              grown = (IF \E i \in into : i = count THEN 1 ELSE 0)

\* C18: the optimizer's submap list of a trajectory grows by at most one
\* entry per processed scan and is never longer than the trajectory's list
\* of submap states; a scan with one insertion submap adds entry 0 only when
\* the trajectory has none, a scan with two appends an entry exactly when the
\* second submap's index equals the optimizer's count; the CHECK_LE on the
\* second index never fails and the optimizer holds a pose for every submap a
\* processed scan was inserted into.
C18_OptimizerSubmaps == []C18_State /\ [][C18_Step]_vars

\* A submap is registered for which the optimizer has no entry yet, next
\* to two for which it has.
C18_Witness ==
  /\ g.failed = NoFailure
  /\ \E t \in TrajectoryIds :
       /\ NumOptimizerSubmaps(g, t) >= 2
       /\ NumSubmapStates(g, t) > NumOptimizerSubmaps(g, t)
       /\ g.scan_queue.allocated /\ g.scan_queue.items # <<>>

\* The flat scan indices of the scan work items buffered in scan_queue_.
BufferedScans(S) ==
  {S.scan_queue.items[k].scan_index :
     k \in {k \in 1 .. Len(S.scan_queue.items) :
              S.scan_queue.items[k].kind = "scan"}}

\* The flat scan indices of the nodes without NodeId.
NodesWithoutNodeId(S) ==
  Len(S.scan_index_to_node_id) .. Len(S.trajectory_nodes) - 1

\* The transform the extrapolation pass applies to the nodes of a trajectory.
ExtrapolationTransform(S, trajectory_id) ==
  Compose(Last(ExtrapolateSubmapTransforms(S, S.submap_data, trajectory_id)),
          Inverse(Last(ExtrapolateSubmapTransforms(S, S.optimized_submap_transforms, trajectory_id))))

C19_State ==
  (mutex = Free /\ g.failed = NoFailure) =>
    /\ Len(g.trajectory_nodes) - Len(g.scan_index_to_node_id)
         = Cardinality({k \in 1 .. Len(g.scan_queue.items) :
                          g.scan_queue.items[k].kind = "scan"})
    /\ NodesWithoutNodeId(g) = BufferedScans(g)
    /\ ~g.scan_queue.allocated =>
         /\ Len(g.scan_index_to_node_id) = Len(g.trajectory_nodes)
         /\ \A i \in 1 .. Len(g.scan_index_to_node_id) :
              InRange(g.node_data, g.scan_index_to_node_id[i].trajectory_id,
                      g.scan_index_to_node_id[i].node_index)

C19_Step ==
  g'.failed = NoFailure =>
    \A i \in 1 .. Len(g.trajectory_nodes) :
      g'.trajectory_nodes[i].pose =
        IF ~RunOptimizationBodyStep THEN g.trajectory_nodes[i].pose
        ELSE IF i - 1 \in BufferedScans(g)
        THEN Compose(ExtrapolationTransform(g, g.trajectory_nodes[i].trajectory_id),
                     g.trajectory_nodes[i].pose)
        ELSE At(g.node_data, g.scan_index_to_node_id[i].trajectory_id,
                g.scan_index_to_node_id[i].node_index)

\* C19: with the mutex free, trajectory_nodes_ holds as many nodes more than
\* scan_index_to_node_id_ has entries as scan work items are buffered, and
\* the nodes without NodeId are those of the buffered scans; with scan_queue_
\* null every node has a NodeId and an optimizer entry. The locked part of
\* RunOptimization left-multiplies the pose of exactly the buffered scans
\* with the extrapolation transform of their trajectory, and no other step
\* changes the pose of a node.
C19_BufferedScans == []C19_State /\ [][C19_Step]_vars

\* A solve that moved the submaps has ended and its locked part is about to
\* run while a scan and IMU data are buffered.
C19_Witness ==
  /\ g.failed = NoFailure /\ mutex = Free
  /\ \E p \in Pool : pc[p] = "ro_lock"
  /\ BufferedScans(g) # {}
  /\ \E k \in 1 .. Len(g.scan_queue.items) : g.scan_queue.items[k].kind = "imu"
  /\ \E t \in TrajectoryIds :
       ExtrapolationTransform(g, t) # Identity

\* The queue-driven callbacks that are registered with the constraint
\* builder or running on a pool thread.
OutstandingQueueCallbacks(S) ==
  Cardinality({k \in 1 .. Len(S.when_done) : S.when_done[k] = "queue"})
    + Cardinality({p \in Pool : pc[p] # "idle" /\ loc.callback[p] = "queue"})

\* C20: run_loop_closure_ set implies scan_queue_ non-null; no work item has
\* run while the flag was set; CHECK(!run_loop_closure_) has not failed; at
\* most one queue-driven callback is outstanding; with
\* optimize_every_n_scans positive the counter of scans since the last
\* optimization is at most optimize_every_n_scans + 1.
C20_PendingFlag ==
  /\ g.run_loop_closure => g.scan_queue.allocated
  /\ ~g.executed_while_flagged
  /\ g.failed # "CHECK(!run_loop_closure_)"
  /\ OutstandingQueueCallbacks(g) <= 1
  /\ g.optimize_every_n_scans > 0 =>
       g.num_scans_since_last_loop_closure <= g.optimize_every_n_scans + 1

\* The threshold was crossed again while the queue was drained: the flag is
\* set, work items are still buffered and the callback is registered anew.
C20_Witness ==
  /\ g.failed = NoFailure
  /\ g.run_loop_closure /\ g.left_over > 0
  /\ g.scan_queue.items # <<>>
  /\ OutstandingQueueCallbacks(g) = 1
  /\ g.num_scans_since_last_loop_closure = g.optimize_every_n_scans + 1

\* The threads inside OptimizationProblem::Solve (line 375).
Solving == {t \in Threads : pc[t] = "ro_solving"}

C21_Step == g'.executed # g.executed => Solving = {}

\* C21: no work item runs while a thread is inside Solve, and no two
\* threads are inside Solve at once.
C21_SolveExclusive == [](Cardinality(Solving) <= 1) /\ [][C21_Step]_vars

====
